---- MODULE Spec2Model ----
(***************************************************************************)
(* Workflow orchestration engine of AgentFlow (backend/core/workflow.py):  *)
(* WorkflowContext, WorkflowOrchestrator and the asyncio scheduling of the *)
(* coroutines it creates.                                                  *)
(***************************************************************************)
EXTENDS Integers, Sequences, FiniteSets, TLC

\* ---------------------------------------------------------------- bounds
\* executions started in one behaviour
MaxRuns == 2
\* largest max_loop_iterations a caller passes
MaxIter == 2
\* largest integer whose decimal text the expression evaluator has to read
MaxNum == 12

\* default of context.get("max_loop_iterations", 10)
DefaultMaxLoopIterations == 10

\* max_retries of a WorkflowTask that does not say otherwise
DefaultMaxRetries == 3

\* ---------------------------------------------------------------- values
\* Python values that live in a context: bool, int, str, None, dict.
VBool(b) == [t |-> "bool", b |-> b, n |-> 0, s |-> "", d |-> <<>>]
VInt(n) == [t |-> "int", b |-> FALSE, n |-> n, s |-> "", d |-> <<>>]
VStr(s) == [t |-> "str", b |-> FALSE, n |-> 0, s |-> s, d |-> <<>>]
VNone == [t |-> "none", b |-> FALSE, n |-> 0, s |-> "", d |-> <<>>]
VDict(d) == [t |-> "dict", b |-> FALSE, n |-> 0, s |-> "", d |-> d]

EmptyDict == <<>>

\* d[key] = value on a dict
DictSet(d, key, value) ==
    [x \in DOMAIN d \cup {key} |-> IF x = key THEN value ELSE d[x]]

\* a merge in which the left operand's values win
DictMergeLeftWins(a, b) ==
    [x \in DOMAIN a \cup DOMAIN b |-> IF x \in DOMAIN a THEN a[x] ELSE b[x]]

\* {**a, **b}
DictMerge(a, b) ==
    [x \in DOMAIN a \cup DOMAIN b |-> IF x \in DOMAIN b THEN b[x] ELSE a[x]]

Digits == <<"0", "1", "2", "3", "4", "5", "6", "7", "8", "9">>

RECURSIVE IntStr(_)
IntStr(n) ==
    IF n < 10 THEN Digits[n + 1] ELSE IntStr(n \div 10) \o Digits[(n % 10) + 1]

\* str(value) of a scalar
Str(v) ==
    CASE v.t = "bool" -> IF v.b THEN "True" ELSE "False"
      [] v.t = "int" -> IntStr(v.n)
      [] v.t = "str" -> v.s
      [] OTHER -> "None"

\* bool(value)
Truthy(v) ==
    CASE v.t = "bool" -> v.b
      [] v.t = "int" -> v.n /= 0
      [] v.t = "str" -> v.s /= ""
      [] v.t = "dict" -> DOMAIN v.d /= {}
      [] OTHER -> FALSE

IsNumber(v) == v.t \in {"bool", "int"}

NumVal(v) == IF v.t = "bool" THEN (IF v.b THEN 1 ELSE 0) ELSE v.n

\* a == b in Python (True == 1, 'a' != 1, None == None)
PyEq(a, b) ==
    CASE IsNumber(a) /\ IsNumber(b) -> NumVal(a) = NumVal(b)
      [] a.t = "str" /\ b.t = "str" -> a.s = b.s
      [] a.t = "none" /\ b.t = "none" -> TRUE
      [] a.t = "dict" /\ b.t = "dict" -> a.d = b.d
      [] OTHER -> FALSE

\* ------------------------------------------------------------ conditions
\* A condition string is a sequence of pieces: a placeholder ${name}, a
\* placeholder inside quotes '${name}', a quoted string literal, or a bare
\* piece of expression text.  <<>> is the absent (None or empty) condition.
Ph(name) == [k |-> "ph", s |-> name]
QPh(name) == [k |-> "qph", s |-> name]
StrLit(s) == [k |-> "str", s |-> s]
Txt(s) == [k |-> "txt", s |-> s]

\* condition.replace("${key}", str(value)) for every key of variables
Substitute(condition, variables) ==
    [j \in 1..Len(condition) |->
        LET p == condition[j] IN
        IF p.k = "ph" /\ p.s \in DOMAIN variables
            THEN Txt(Str(variables[p.s]))
        ELSE IF p.k = "qph" /\ p.s \in DOMAIN variables
            THEN StrLit(Str(variables[p.s]))
        ELSE p]

EvalError == [ok |-> FALSE, v |-> VNone]
EvalOk(v) == [ok |-> TRUE, v |-> v]

\* one operand of the expression text handed to eval
EvalAtom(p) ==
    CASE p.k = "str" -> EvalOk(VStr(p.s))
      [] p.k = "qph" -> EvalOk(VStr("${" \o p.s \o "}"))
      [] p.k = "ph" -> EvalError
      [] OTHER ->
            IF p.s = "True" THEN EvalOk(VBool(TRUE))
            ELSE IF p.s = "False" THEN EvalOk(VBool(FALSE))
            ELSE IF p.s = "None" THEN EvalOk(VNone)
            ELSE IF \E n \in 0..MaxNum : IntStr(n) = p.s
                THEN EvalOk(VInt(CHOOSE n \in 0..MaxNum : IntStr(n) = p.s))
            ELSE EvalError

IsOperator(p) == p.k = "txt" /\ p.s \in {"==", "!=", "not"}

\* eval(text, {"__builtins__": {}}, {}) on the expression shapes the
\* workflows use: operand, not operand, operand ==/!= operand.  Any other
\* arrangement of these pieces is a SyntaxError, an unknown name a NameError.
PyEval(e) ==
    IF Len(e) = 1 /\ ~IsOperator(e[1]) THEN EvalAtom(e[1])
    ELSE IF Len(e) = 2 /\ e[1] = Txt("not") /\ ~IsOperator(e[2]) THEN
        LET a == EvalAtom(e[2]) IN
        IF a.ok THEN EvalOk(VBool(~Truthy(a.v))) ELSE EvalError
    ELSE IF Len(e) = 3 /\ ~IsOperator(e[1]) /\ ~IsOperator(e[3])
                /\ e[2] \in {Txt("=="), Txt("!=")} THEN
        LET a == EvalAtom(e[1])
            b == EvalAtom(e[3]) IN
        IF a.ok /\ b.ok
            THEN EvalOk(VBool(IF e[2].s = "==" THEN PyEq(a.v, b.v) ELSE ~PyEq(a.v, b.v)))
            ELSE EvalError
    ELSE EvalError

\* WorkflowOrchestrator._evaluate_condition: the value eval returns, False
\* when substitution or eval raised.
evaluate_condition(condition, ctx) ==
    LET r == PyEval(Substitute(condition, ctx.variables)) IN
    IF r.ok THEN r.v ELSE VBool(FALSE)

\* ---------------------------------------------------------------- context
\* a get that looks in agent_outputs before variables
ContextGetOutputsFirst(ctx, key, default) ==
    IF key \in DOMAIN ctx.agent_outputs THEN ctx.agent_outputs[key]
    ELSE IF key \in DOMAIN ctx.variables THEN ctx.variables[key]
    ELSE default

\* WorkflowContext.get
ContextGet(ctx, key, default) ==
    IF key \in DOMAIN ctx.variables THEN ctx.variables[key]
    ELSE IF key \in DOMAIN ctx.agent_outputs THEN ctx.agent_outputs[key]
    ELSE default

\* WorkflowContext.set
ContextSet(ctx, key, value) ==
    [ctx EXCEPT !.variables = DictSet(@, key, value)]

\* a set_agent_output that keeps the value a key already has
SetAgentOutputKeepFirst(ctx, agent_id, output) ==
    IF agent_id \in DOMAIN ctx.agent_outputs THEN ctx
    ELSE [ctx EXCEPT !.agent_outputs = DictSet(@, agent_id, output)]

\* a set_agent_output that stores the output among the variables
SetAgentOutputIntoVariables(ctx, agent_id, output) ==
    [ctx EXCEPT !.variables = DictSet(@, agent_id, output)]

\* WorkflowContext.set_agent_output
ContextSetAgentOutput(ctx, agent_id, output) ==
    [ctx EXCEPT !.agent_outputs = DictSet(@, agent_id, output)]

\* ------------------------------------------------------------------ agents
\* The task handlers registered with register_agent.  suspends: execute
\* awaits asyncio.to_thread (an executor is configured); otherwise it runs
\* in mock mode without giving up the event loop.  outcomes: what execute
\* can do: return status completed, return status failed, or raise.
Agent(suspends, echo, outcomes) ==
    [suspends |-> suspends, echo |-> echo, outcomes |-> outcomes]

Agents ==
    [a \in {"worker", "echo", "flaky", "slow", "slow_echo", "approver", "denier"} |->
        CASE a \in {"worker", "approver", "denier"} -> Agent(FALSE, FALSE, {"completed"})
          [] a = "echo" -> Agent(FALSE, TRUE, {"completed"})
          [] a = "flaky" -> Agent(TRUE, FALSE, {"completed", "failed", "raise"})
          [] a = "slow_echo" -> Agent(TRUE, TRUE, {"completed"})
          [] OTHER -> Agent(TRUE, FALSE, {"completed"})]

HandlerError == "handler error"

\* the handlers whose output is a decision: output_data {"approved": ...}
Approves == [approver |-> TRUE, denier |-> FALSE]

\* AgentExecution returned by BaseAgent.execute
AgentExecution(agent_id, outcome, input_data) ==
    [status |-> outcome,
     output_data |->
        IF outcome /= "completed" THEN EmptyDict
        ELSE IF Agents[agent_id].echo THEN input_data
        ELSE IF agent_id \in DOMAIN Approves THEN [approved |-> VBool(Approves[agent_id])]
        ELSE [result |-> VStr("ok")]]

\* ------------------------------------------------------------- definitions
WorkflowTask(type, agent_id, input_mapping, output_key, condition, nexts) ==
    [type |-> type, agent_id |-> agent_id, input_mapping |-> input_mapping,
     output_key |-> output_key, condition |-> condition, next_tasks |-> nexts,
     max_retries |-> DefaultMaxRetries]

Leaf(agent_id, output_key) ==
    WorkflowTask("sequential", agent_id, <<>>, output_key, <<>>, <<>>)

WorkflowDefinition(id, tasks, entry_task_id, variables) ==
    [id |-> id, tasks |-> tasks, entry_task_id |-> entry_task_id,
     variables |-> variables]

\* a chain with a handler that may fail, and a task later in the walk
WfSeq ==
    WorkflowDefinition("wf_seq",
        [root |-> WorkflowTask("sequential", "worker", <<>>, "", <<>>, <<"a", "z">>),
         a |-> WorkflowTask("sequential", "flaky", [task |-> "request"], "a_out", <<>>, <<"b">>),
         b |-> Leaf("worker", "b_out"),
         z |-> Leaf("worker", "")],
        "root", [request |-> VStr("req")])

\* a later version of wf_seq, posted under the same id: the same task ids
\* with other successors and two handlers that suspend
WfSeqNew ==
    WorkflowDefinition("wf_seq",
        [root |-> WorkflowTask("sequential", "worker", <<>>, "", <<>>, <<"z", "a">>),
         a |-> [WorkflowTask("sequential", "flaky", [task |-> "request"], "a_out", <<>>, <<>>)
                    EXCEPT !.max_retries = 0],
         b |-> Leaf("worker", "b_out"),
         z |-> Leaf("slow", "z_out")],
        "root", [request |-> VStr("req")])

CondBranches == [c |-> Leaf("worker", "c_out"), d |-> Leaf("worker", "d_out")]

WfCond(id, condition) ==
    WorkflowDefinition(id,
        [t \in {"b", "c", "d"} |->
            IF t = "b"
            THEN WorkflowTask("conditional", "", <<>>, "", condition, <<"c", "d">>)
            ELSE CondBranches[t]],
        "b", EmptyDict)

WfLoop(id, condition) ==
    WorkflowDefinition(id,
        [l |-> WorkflowTask("loop", "", <<>>, "", condition, <<"body">>),
         body |-> Leaf("worker", "")],
        "l", EmptyDict)

\* a Loop node whose body awaits its handler
WfLoopSlow ==
    WorkflowDefinition("wf_loop_slow",
        [l |-> WorkflowTask("loop", "", <<>>, "", <<Txt("True")>>, <<"body">>),
         body |-> Leaf("slow", "body_out")],
        "l", EmptyDict)

\* a Parallel node followed by a task in its parent's successor list
WfPar ==
    WorkflowDefinition("wf_par",
        [r |-> WorkflowTask("sequential", "worker", <<>>, "", <<>>, <<"p", "y">>),
         p |-> WorkflowTask("parallel", "", <<>>, "", <<>>, <<"a", "b">>),
         a |-> Leaf("slow", "a_out"),
         b |-> Leaf("flaky", "b_out"),
         y |-> Leaf("worker", "y_out")],
        "r", EmptyDict)

\* a Parallel node whose two branches write the same output key
WfParSame ==
    WorkflowDefinition("wf_par_same",
        [p |-> WorkflowTask("parallel", "", <<>>, "", <<>>, <<"a", "b">>),
         a |-> Leaf("flaky", "same"),
         b |-> WorkflowTask("sequential", "slow_echo", [tag |-> "tag"], "same", <<>>, <<>>)],
        "p", [tag |-> VStr("b")])

\* create_financial_reporting_workflow: gather_data, then a Parallel node
\* that fans out three analyses, the last of which names generate_report as
\* its successor.  The financial analyst's handler runs gather_data,
\* calculate_metrics and generate_report; the compliance officer's handler
\* runs in mock mode.
WfFinancial ==
    WorkflowDefinition("wf_financial",
        [gather_data |-> WorkflowTask("sequential", "slow_echo",
                [task |-> "reporting_period"], "raw_financial_data", <<>>,
                <<"parallel_analysis">>),
         parallel_analysis |-> WorkflowTask("parallel", "", <<>>, "", <<>>,
                <<"analyze_trends", "check_compliance", "calculate_metrics">>),
         analyze_trends |-> WorkflowTask("sequential", "slow",
                [task |-> "Analyze YoY and QoQ trends", data |-> "raw_financial_data"],
                "trend_analysis", <<>>, <<>>),
         check_compliance |-> WorkflowTask("sequential", "worker",
                [task |-> "Check financial reporting compliance", data |-> "raw_financial_data"],
                "compliance_report", <<>>, <<>>),
         calculate_metrics |-> WorkflowTask("sequential", "slow_echo",
                [task |-> "Calculate KPIs and financial ratios", data |-> "raw_financial_data"],
                "financial_metrics", <<>>, <<"generate_report">>),
         generate_report |-> WorkflowTask("sequential", "slow_echo",
                [task |-> "Generate comprehensive financial report",
                 trends |-> "trend_analysis", compliance |-> "compliance_report",
                 metrics |-> "financial_metrics"],
                "final_report", <<>>, <<>>)],
        "gather_data",
        [report_format |-> VStr("executive_summary"), include_forecasts |-> VBool(TRUE)])

\* WorkflowFactory.create_approval_workflow
WfApproval(id, analysis_agent_id, decision_agent_id) ==
    WorkflowDefinition(id,
        [analyze |-> WorkflowTask("sequential", analysis_agent_id,
                [task |-> "request_data"], "analysis_result", <<>>, <<"decide">>),
         decide |-> WorkflowTask("sequential", decision_agent_id,
                [analysis |-> "analysis_result", criteria |-> "decision_criteria"],
                "decision", <<>>, <<"route">>),
         route |-> WorkflowTask("conditional", "", <<>>, "",
                <<Ph("decision.approved"), Txt("=="), Txt("True")>>, <<"approve", "reject">>),
         approve |-> WorkflowTask("sequential", analysis_agent_id,
                [task |-> "Process approval actions"], "approval_result", <<>>, <<>>),
         reject |-> WorkflowTask("sequential", analysis_agent_id,
                [task |-> "Process rejection actions"], "rejection_result", <<>>, <<>>)],
        "analyze", [decision_criteria |-> VStr("Standard approval criteria")])

\* a Sequential task x whose agent_id is None, after a task that completed
WfNoHandler ==
    WorkflowDefinition("wf_no_handler",
        [r |-> WorkflowTask("sequential", "worker", <<>>, "r_out", <<>>, <<"x", "y">>),
         x |-> WorkflowTask("sequential", "", <<>>, "x_out", <<>>, <<"s">>),
         s |-> Leaf("worker", "s_out"),
         y |-> Leaf("worker", "y_out")],
        "r", EmptyDict)

\* a Sequential task x that names a handler nobody registered, as a branch
\* of a Parallel node next to a branch that awaits its handler
WfUnknownHandler ==
    WorkflowDefinition("wf_unknown_handler",
        [p |-> WorkflowTask("parallel", "", <<>>, "", <<>>, <<"a", "x">>),
         a |-> Leaf("slow", "a_out"),
         x |-> WorkflowTask("sequential", "ghost", <<>>, "x_out", <<>>, <<"s">>),
         s |-> Leaf("worker", "s_out")],
        "p", EmptyDict)

\* the end-to-end graph: A echoes its input into out1, B branches on it
WfE2E ==
    WorkflowDefinition("wf_e2e",
        [A |-> WorkflowTask("sequential", "echo", [flag |-> "flag"], "out1", <<>>, <<"B">>),
         B |-> WorkflowTask("conditional", "", <<>>, "", <<Ph("out1.flag"), Txt("=="), Txt("true")>>, <<"C", "D">>),
         C |-> Leaf("worker", ""),
         D |-> Leaf("worker", "")],
        "A", EmptyDict)

\* a variable overridden by the caller, an output key that is also the name
\* of a variable, and an input mapping that reads both namespaces and a key
\* that is in neither
WfCtx ==
    WorkflowDefinition("wf_ctx",
        [u |-> WorkflowTask("sequential", "worker", <<>>, "request", <<>>, <<"w">>),
         w |-> WorkflowTask("sequential", "worker", <<>>, "w_out", <<>>, <<"v">>),
         v |-> WorkflowTask("sequential", "echo",
                    [task |-> "request", prev |-> "w_out", missing |-> "nothing"],
                    "v_out", <<>>, <<>>)],
        "u", [request |-> VStr("req")])

\* a successor id that names no task of the definition
WfDangling ==
    WorkflowDefinition("wf_dangling",
        [root |-> WorkflowTask("sequential", "worker", <<>>, "root_out", <<>>, <<"ghost">>)],
        "root", EmptyDict)

\* an entry_task_id that names no task of the definition
WfBadEntry ==
    WorkflowDefinition("wf_bad_entry", [root |-> Leaf("worker", "root_out")],
        "ghost", EmptyDict)

\* a Loop node with a successor after its body
WfLoopTwo ==
    WorkflowDefinition("wf_loop_two",
        [l |-> WorkflowTask("loop", "", <<>>, "", <<Txt("True")>>, <<"body", "x">>),
         body |-> Leaf("worker", ""),
         x |-> Leaf("worker", "x_out")],
        "l", EmptyDict)

\* a Conditional node with fewer than two successors
WfCondShort(id, nexts) ==
    WorkflowDefinition(id,
        [b |-> WorkflowTask("conditional", "", <<>>, "",
                    <<Ph("flag"), Txt("=="), Txt("True")>>, nexts),
         c |-> Leaf("worker", "c_out")],
        "b", EmptyDict)

\* the WorkflowDefinition objects handed to register_workflow
Definitions ==
    << WfSeq,
       WfCond("wf_cond", <<Ph("flag"), Txt("=="), Txt("True")>>),
       WfCond("wf_cond_malformed", <<Ph("flag"), Txt("==")>>),
       WfCond("wf_cond_quoted", <<QPh("status"), Txt("!="), StrLit("done")>>),
       WfLoop("wf_loop", <<Txt("True")>>),
       WfLoop("wf_loop_missing", <<Ph("limit"), Txt("!="), Txt("0")>>),
       WfPar,
       WfE2E,
       WfCtx,
       WfDangling,
       WfBadEntry,
       WfLoopTwo,
       WfCondShort("wf_cond_one", <<"c">>),
       WfCondShort("wf_cond_none", <<>>),
       WfLoop("wf_loop_until", <<Ph("loop_index"), Txt("!="), Txt("1")>>),
       WfSeqNew,
       WfLoopSlow,
       WfParSame,
       WfFinancial,
       WfApproval("wf_approval", "worker", "approver"),
       WfApproval("wf_approval_denied", "worker", "denier"),
       WfNoHandler,
       WfUnknownHandler,
       WfCond("wf_cond_nocond", <<>>),
       WfLoop("wf_loop_nocond", <<>>) >>

\* a workflow id no definition was registered under
UnknownWorkflowId == "wf_unknown"

FlagInputs ==
    <<EmptyDict, [flag |-> VBool(TRUE)], [flag |-> VBool(FALSE)]>>

LoopInputs ==
    <<EmptyDict>> \o [n \in 1..(MaxIter + 1) |-> [max_loop_iterations |-> VInt(n - 1)]]

\* the input_data mappings callers pass to execute_workflow, by workflow id
Inputs(workflow_id) ==
    CASE workflow_id \in {"wf_cond", "wf_cond_malformed", "wf_e2e"} -> FlagInputs
      [] workflow_id = "wf_cond_quoted" -> <<EmptyDict, [status |-> VStr("done")]>>
      [] workflow_id \in {"wf_loop", "wf_loop_missing"} -> LoopInputs
      [] workflow_id \in {"wf_loop_two", "wf_loop_nocond"} ->
            <<[max_loop_iterations |-> VInt(1)]>>
      [] workflow_id = "wf_loop_slow" -> <<[max_loop_iterations |-> VInt(2)]>>
      [] workflow_id \in {"wf_cond_one", "wf_cond_none"} ->
            <<[flag |-> VBool(TRUE)], [flag |-> VBool(FALSE)]>>
      [] workflow_id = "wf_ctx" ->
            <<EmptyDict, [request |-> VStr("override")], [request |-> VNone]>>
      [] workflow_id \in {"wf_approval", "wf_approval_denied"} ->
            <<[request_data |-> VStr("req")]>>
      [] workflow_id = "wf_financial" -> <<[reporting_period |-> VStr("2024-01")]>>
      [] OTHER -> <<EmptyDict>>

\* -------------------------------------------------------------------- state
VARIABLES
    workflows,      \* self.workflows: workflow id -> WorkflowDefinition object
    next_tasks,     \* task.next_tasks of every task of every registered object
    execution,      \* the WorkflowExecution objects, by run
    context,        \* the WorkflowContext objects, by run
    executions,     \* self.executions: the runs stored under their id
    procs,          \* the coroutines the event loop knows (asyncio Tasks)
    ready,          \* the event loop's FIFO of coroutines ready to run
    cur,            \* the coroutine holding the event loop, 0 when none
    log             \* what has happened, in order (observation only)

vars == <<workflows, next_tasks, execution, context, executions, procs, ready, cur, log>>

Runs == 1..Len(execution)

\* a new _execute_task(workflow, task_id, context, execution) call
Frame(task_id) ==
    [task |-> task_id, pc |-> "enter", i |-> 0, k |-> 0, lst |-> <<>>, maxit |-> 0]

Proc(run, def, parent, stack) ==
    [run |-> run, def |-> def, parent |-> parent, stack |-> stack,
     st |-> "ready", exc |-> "", res |-> "", arg |-> EmptyDict, kids |-> {}]

\* where coroutine p stands: "start" before execute_workflow has begun
Pc(p) == IF procs[p].stack = <<>> THEN "start" ELSE procs[p].stack[Len(procs[p].stack)].pc

Event(e, run, task) == [e |-> e, run |-> run, task |-> task]

Top(p) == procs[p].stack[Len(procs[p].stack)]

\* a lookup under which a Sequential task that has successors is dispatched
\* as a fan-out of its successors
TaskOfFanningOut(p) ==
    LET task == Definitions[procs[p].def].tasks[Top(p).task] IN
    IF task.type = "sequential" /\ task.next_tasks /= <<>>
    THEN [task EXCEPT !.type = "parallel"]
    ELSE task

TaskOf(p) == Definitions[procs[p].def].tasks[Top(p).task]

\* task.next_tasks read from whatever definition is registered under the
\* run's workflow id at the time of the read
NextTasksOfRegistered(p) ==
    next_tasks[workflows[execution[procs[p].run].workflow_id]][Top(p).task]

NextTasksOf(p) == next_tasks[procs[p].def][Top(p).task]

\* input_data of a Sequential task: the mapped context values that are not None
InputData(task, ctx) ==
    LET present == {tk \in DOMAIN task.input_mapping :
                        ContextGet(ctx, task.input_mapping[tk], VNone).t /= "none"} IN
    [tk \in present |-> ContextGet(ctx, task.input_mapping[tk], VNone)]

\* context.execution_history[-1]["error"] = str(e)
SetLastError(history, msg) ==
    IF Len(history) = 0 THEN history
    ELSE [history EXCEPT ![Len(history)].error = msg]

\* the exit events of the frames an exception unwinds, innermost first
ExitEvents(p) ==
    [j \in 1..Len(procs[p].stack) |->
        Event("exit", procs[p].run, procs[p].stack[Len(procs[p].stack) + 1 - j].task)]

\* an execute_workflow that marks the run without appending the message
FinalizeWithoutError(r, status, msg) ==
    /\ execution' = [execution EXCEPT
            ![r].status = status,
            ![r].completed = TRUE,
            ![r].context_set = TRUE]
    /\ executions' = executions \cup {r}

\* an execute_workflow that stores every record under one and the same key
FinalizeUnderOneKey(r, status, msg) ==
    /\ execution' = [execution EXCEPT
            ![r].status = status,
            ![r].errors = IF msg = "" THEN @ ELSE Append(@, msg),
            ![r].completed = TRUE,
            ![r].context_set = TRUE]
    /\ executions' = {r}

\* an execute_workflow that takes the context snapshot on success only
FinalizeSnapshotOnSuccess(r, status, msg) ==
    /\ execution' = [execution EXCEPT
            ![r].status = status,
            ![r].errors = IF msg = "" THEN @ ELSE Append(@, msg),
            ![r].completed = TRUE,
            ![r].context_set = (status = "completed")]
    /\ executions' = executions \cup {r}

\* finally-block and storing of execute_workflow, with the status given
Finalize(r, status, msg) ==
    /\ execution' = [execution EXCEPT
            ![r].status = status,
            ![r].errors = IF msg = "" THEN @ ELSE Append(@, msg),
            ![r].completed = TRUE,
            ![r].context_set = TRUE]
    /\ executions' = executions \cup {r}

\* an end of a coroutine after which the gather future never wakes the
\* coroutine that awaits it
EndProcNeverWakes(p, msg, events) ==
    LET q == procs[p].parent
        r == procs[p].run
        P1 == [procs EXCEPT ![p].st = "done", ![p].stack = <<>>]
    IN
    /\ cur' = 0
    /\ procs' = P1
    /\ ready' = ready
    /\ IF q = 0
       THEN /\ Finalize(r, IF msg = "" THEN "completed" ELSE "failed", msg)
            /\ log' = log \o events \o <<Event("terminal", r, "")>>
       ELSE /\ UNCHANGED <<execution, executions>>
            /\ log' = log \o events

\* Coroutine p ends, normally (msg = "") or with an exception.  The coroutine
\* of execute_workflow finalizes its run; a coroutine started by gather
\* reports to the gather future its parent awaits: the first exception, or
\* the last completion, wakes the parent; after that nothing is reported.
EndProc(p, msg, events) ==
    LET q == procs[p].parent
        r == procs[p].run
        P1 == [procs EXCEPT ![p].st = "done", ![p].stack = <<>>]
    IN
    /\ cur' = 0
    /\ IF q = 0
       THEN /\ Finalize(r, IF msg = "" THEN "completed" ELSE "failed", msg)
            /\ procs' = P1
            /\ ready' = ready
            /\ log' = log \o events \o <<Event("terminal", r, "")>>
       ELSE /\ UNCHANGED <<execution, executions>>
            /\ log' = log \o events
            /\ IF P1[q].st /= "await_gather"
               THEN procs' = P1 /\ ready' = ready
               ELSE IF msg /= ""
               THEN /\ procs' = [P1 EXCEPT ![q].st = "ready", ![q].exc = msg]
                    /\ ready' = Append(ready, q)
               ELSE IF \A c \in P1[q].kids : P1[c].st = "done"
               THEN /\ procs' = [P1 EXCEPT ![q].st = "ready"]
                    /\ ready' = Append(ready, q)
               ELSE procs' = P1 /\ ready' = ready

\* An exception raised in the top frame of p.  Every _execute_task frame it
\* passes through (caught of them) writes it on the last history entry.
Throw(p, msg, caught) ==
    /\ context' = IF caught > 0
                  THEN [context EXCEPT ![procs[p].run].execution_history = SetLastError(@, msg)]
                  ELSE context
    /\ EndProc(p, msg, ExitEvents(p))
    /\ UNCHANGED <<workflows, next_tasks>>

SetTop(p, f) == [procs EXCEPT ![p].stack[Len(procs[p].stack)] = f]

\* the top frame calls _execute_task(task_id) and continues as f afterwards
Call(p, f, task_id) ==
    [procs EXCEPT ![p].stack = Append([@ EXCEPT ![Len(@)] = f], Frame(task_id))]

\* ------------------------------------------------------------------ actions
\* One workflow is registered at start-up, in its first version: a later
\* version of a definition comes in through register_workflow.
Init ==
    /\ \E o \in 1..Len(Definitions) :
        /\ \A n \in 1..(o - 1) : Definitions[n].id /= Definitions[o].id
        /\ workflows = (Definitions[o].id :> o)
        /\ next_tasks = (o :> [t \in DOMAIN Definitions[o].tasks |->
                                    Definitions[o].tasks[t].next_tasks])
    /\ execution = <<>>
    /\ context = <<>>
    /\ executions = {}
    /\ procs = <<>>
    /\ ready = <<>>
    /\ cur = 0
    /\ log = <<>>

\* register_workflow(workflow) on a WorkflowDefinition object built from a
\* request, under an id that is registered already
RegisterWorkflow(o) ==
    /\ cur = 0
    /\ o \notin DOMAIN next_tasks
    /\ Definitions[o].id \in DOMAIN workflows
    /\ workflows' = [workflows EXCEPT ![Definitions[o].id] = o]
    /\ next_tasks' = next_tasks @@
            (o :> [t \in DOMAIN Definitions[o].tasks |-> Definitions[o].tasks[t].next_tasks])
    /\ log' = Append(log, Event("register", 0, Definitions[o].id))
    /\ UNCHANGED <<execution, context, executions, procs, ready, cur>>

\* a caller awaits execute_workflow(workflow_id, input_data): its coroutine
\* queues up behind the coroutines that are ready
Request(workflow_id, input_data) ==
    /\ cur = 0
    /\ Cardinality({p \in 1..Len(procs) : procs[p].parent = 0}) < MaxRuns
    /\ procs' = Append(procs, [Proc(0, 0, 0, <<>>) EXCEPT
                    !.res = workflow_id, !.arg = input_data])
    /\ ready' = Append(ready, Len(procs) + 1)
    /\ UNCHANGED <<workflows, next_tasks, execution, context, executions, cur, log>>

\* a lookup that falls back on a registered workflow when the id is unknown
WorkflowsGetOrAny(workflow_id) ==
    IF workflow_id \in DOMAIN workflows THEN workflows[workflow_id]
    ELSE workflows[CHOOSE w \in DOMAIN workflows : TRUE]

\* self.workflows.get(workflow_id); 0 stands for None
WorkflowsGet(workflow_id) ==
    IF workflow_id \in DOMAIN workflows THEN workflows[workflow_id] ELSE 0

\* str(e) of the ValueError execute_workflow raises for an unknown id
NotFound(workflow_id) == "Workflow " \o workflow_id \o " not found"

\* execute_workflow up to its call of _execute_task on the entry task
ExecuteWorkflow ==
    /\ cur /= 0
    /\ Pc(cur) = "start"
    /\ LET workflow_id == procs[cur].res
           input_data == procs[cur].arg
           r == Len(execution) + 1
       IN
       IF WorkflowsGet(workflow_id) = 0
       THEN /\ procs' = [procs EXCEPT ![cur].st = "done",
                            ![cur].exc = NotFound(workflow_id)]
            /\ cur' = 0
            /\ UNCHANGED <<execution, context, log>>
       ELSE LET o == WorkflowsGet(workflow_id) IN
          /\ execution' = Append(execution,
                [workflow_id |-> workflow_id, status |-> "running", errors |-> <<>>,
                 task_executions |-> EmptyDict, completed |-> FALSE, context_set |-> FALSE])
          /\ context' = Append(context,
                [variables |-> DictMerge(Definitions[o].variables, input_data),
                 agent_outputs |-> EmptyDict, execution_history |-> <<>>])
          /\ procs' = [procs EXCEPT ![cur] =
                [Proc(r, o, 0, <<Frame(Definitions[o].entry_task_id)>>) EXCEPT !.st = "running"]]
          /\ log' = Append(log, Event("start", r, ""))
          /\ UNCHANGED cur
    /\ UNCHANGED <<workflows, next_tasks, executions, ready>>

\* the event loop runs the next ready coroutine
Schedule ==
    /\ cur = 0
    /\ ready /= <<>>
    /\ cur' = Head(ready)
    /\ ready' = Tail(ready)
    /\ procs' = [procs EXCEPT ![Head(ready)].st = "running"]
    /\ UNCHANGED <<workflows, next_tasks, execution, context, executions, log>>

\* an _execute_task that puts the entry it records at the front of the history
EnterTaskRecordsInFront ==
    /\ cur /= 0
    /\ Pc(cur) = "enter"
    /\ LET p == cur
           f == Top(p)
           r == procs[p].run
       IN
       IF f.task \notin DOMAIN Definitions[procs[p].def].tasks
       THEN Throw(p, "Task " \o f.task \o " not found in workflow", Len(procs[p].stack) - 1)
       ELSE /\ context' = [context EXCEPT ![r].execution_history =
                    <<[task_id |-> f.task, type |-> TaskOf(p).type, error |-> ""]>> \o @]
            /\ procs' = SetTop(p, [f EXCEPT !.pc = "dispatch"])
            /\ log' = Append(log, Event("enter", r, f.task))
            /\ UNCHANGED <<workflows, next_tasks, execution, executions, ready, cur>>

\* _execute_task: look the task up and record its start
EnterTask ==
    /\ cur /= 0
    /\ Pc(cur) = "enter"
    /\ LET p == cur
           f == Top(p)
           r == procs[p].run
       IN
       IF f.task \notin DOMAIN Definitions[procs[p].def].tasks
       THEN Throw(p, "Task " \o f.task \o " not found in workflow", Len(procs[p].stack) - 1)
       ELSE /\ context' = [context EXCEPT ![r].execution_history =
                    Append(@, [task_id |-> f.task, type |-> TaskOf(p).type, error |-> ""])]
            /\ procs' = SetTop(p, [f EXCEPT !.pc = "dispatch"])
            /\ log' = Append(log, Event("enter", r, f.task))
            /\ UNCHANGED <<workflows, next_tasks, execution, executions, ready, cur>>

\* an _execute_sequential_task that invokes the handler once more when the
\* first invocation did not complete and the task allows retries
CompleteSequentialRetries(p, outcome, input_data, events) ==
    LET f == Top(p)
        r == procs[p].run
        task == TaskOf(p)
        agent_execution == AgentExecution(task.agent_id, outcome, input_data)
        again == IF outcome /= "completed" /\ task.max_retries > 0
                 THEN <<Event("invoke", r, f.task)>> ELSE <<>>
    IN
    IF outcome = "raise"
    THEN /\ context' = [context EXCEPT ![r].execution_history = SetLastError(@, HandlerError)]
         /\ EndProc(p, HandlerError,
                    events \o again \o <<Event("raised", r, f.task)>> \o ExitEvents(p))
         /\ UNCHANGED <<workflows, next_tasks>>
    ELSE /\ execution' = [execution EXCEPT ![r].task_executions =
                DictSet(@, f.task, agent_execution)]
         /\ context' = IF task.output_key /= "" /\ agent_execution.status = "completed"
                       THEN [context EXCEPT ![r] =
                            ContextSetAgentOutput(@, task.output_key, VDict(agent_execution.output_data))]
                       ELSE context
         /\ procs' = SetTop(p, [f EXCEPT !.pc = "walk"])
         /\ log' = log \o events \o again
                    \o <<Event(IF outcome = "failed" THEN "failed" ELSE "result", r, f.task)>>
         /\ UNCHANGED <<workflows, next_tasks, executions, ready, cur>>

\* _execute_sequential_task after agent.execute returned or raised
CompleteSequential(p, outcome, input_data, events) ==
    LET f == Top(p)
        r == procs[p].run
        task == TaskOf(p)
        agent_execution == AgentExecution(task.agent_id, outcome, input_data)
    IN
    IF outcome = "raise"
    THEN /\ context' = [context EXCEPT ![r].execution_history = SetLastError(@, HandlerError)]
         /\ EndProc(p, HandlerError, events \o <<Event("raised", r, f.task)>> \o ExitEvents(p))
         /\ UNCHANGED <<workflows, next_tasks>>
    ELSE /\ execution' = [execution EXCEPT ![r].task_executions =
                DictSet(@, f.task, agent_execution)]
         /\ context' = IF task.output_key /= "" /\ agent_execution.status = "completed"
                       THEN [context EXCEPT ![r] =
                            ContextSetAgentOutput(@, task.output_key, VDict(agent_execution.output_data))]
                       ELSE context
         /\ procs' = SetTop(p, [f EXCEPT !.pc = "walk"])
         /\ log' = log \o events \o <<Event(IF outcome = "failed" THEN "failed" ELSE "result", r, f.task)>>
         /\ UNCHANGED <<workflows, next_tasks, executions, ready, cur>>

\* str(e) of the ValueError for a task without a registered handler; ""
\* stands for the agent_id None
AgentNotFound(agent_id) ==
    "Agent " \o (IF agent_id = "" THEN "None" ELSE agent_id) \o " not found"

\* an _execute_sequential_task that skips a task without a registered handler
ExecuteSequentialTaskSkipsMissing ==
    /\ cur /= 0
    /\ Pc(cur) = "dispatch"
    /\ TaskOf(cur).type = "sequential"
    /\ LET p == cur
           f == Top(p)
           r == procs[p].run
           task == TaskOf(p)
           input_data == InputData(task, context[r])
       IN
       IF task.agent_id = "" \/ task.agent_id \notin DOMAIN Agents
       THEN /\ procs' = SetTop(p, [f EXCEPT !.pc = "walk"])
            /\ UNCHANGED <<workflows, next_tasks, execution, context, executions, ready, cur, log>>
       ELSE IF Agents[task.agent_id].suspends
       THEN /\ procs' = [SetTop(p, [f EXCEPT !.pc = "await"]) EXCEPT
                            ![p].st = "await_handler", ![p].arg = input_data]
            /\ cur' = 0
            /\ log' = Append(log, Event("invoke", r, f.task))
            /\ UNCHANGED <<workflows, next_tasks, execution, context, executions, ready>>
       ELSE \E outcome \in Agents[task.agent_id].outcomes :
                CompleteSequential(p, outcome, input_data, <<Event("invoke", r, f.task)>>)

\* _execute_sequential_task up to the await of agent.execute; a handler that
\* does not suspend returns within the same step
ExecuteSequentialTask ==
    /\ cur /= 0
    /\ Pc(cur) = "dispatch"
    /\ TaskOf(cur).type = "sequential"
    /\ LET p == cur
           f == Top(p)
           r == procs[p].run
           task == TaskOf(p)
           input_data == InputData(task, context[r])
       IN
       IF task.agent_id = "" \/ task.agent_id \notin DOMAIN Agents
       THEN Throw(p, AgentNotFound(task.agent_id), Len(procs[p].stack))
       ELSE IF Agents[task.agent_id].suspends
       THEN /\ procs' = [SetTop(p, [f EXCEPT !.pc = "await"]) EXCEPT
                            ![p].st = "await_handler", ![p].arg = input_data]
            /\ cur' = 0
            /\ log' = Append(log, Event("invoke", r, f.task))
            /\ UNCHANGED <<workflows, next_tasks, execution, context, executions, ready>>
       ELSE \E outcome \in Agents[task.agent_id].outcomes :
                CompleteSequential(p, outcome, input_data, <<Event("invoke", r, f.task)>>)

\* the handler a coroutine awaits finishes: the coroutine becomes ready
HandlerReturn(p) ==
    /\ procs[p].st = "await_handler"
    /\ \E outcome \in Agents[TaskOf(p).agent_id].outcomes :
         procs' = [procs EXCEPT ![p].st = "ready", ![p].res = outcome]
    /\ ready' = Append(ready, p)
    /\ UNCHANGED <<workflows, next_tasks, execution, context, executions, cur, log>>

\* _execute_sequential_task resumed after the await
ResumeSequential ==
    /\ cur /= 0
    /\ Pc(cur) = "await"
    /\ CompleteSequential(cur, procs[cur].res, procs[cur].arg, <<>>)

\* _execute_parallel_tasks up to the await of asyncio.gather
ExecuteParallelTasks ==
    /\ cur /= 0
    /\ Pc(cur) = "dispatch"
    /\ TaskOf(cur).type = "parallel"
    /\ LET p == cur
           f == Top(p)
           nt == NextTasksOf(p)
           n == Len(nt)
           kids == (Len(procs) + 1)..(Len(procs) + n)
       IN
       /\ next_tasks' = [next_tasks EXCEPT ![procs[p].def][f.task] = <<>>]
       /\ IF n = 0
          THEN /\ procs' = SetTop(p, [f EXCEPT !.pc = "walk"])
               /\ UNCHANGED <<ready, cur>>
          ELSE /\ procs' = [SetTop(p, [f EXCEPT !.pc = "gather"]) EXCEPT
                                ![p].st = "await_gather", ![p].kids = kids]
                            \o [j \in 1..n |-> Proc(procs[p].run, procs[p].def, p, <<Frame(nt[j])>>)]
               /\ ready' = ready \o [j \in 1..n |-> Len(procs) + j]
               /\ cur' = 0
       /\ UNCHANGED <<workflows, execution, context, executions, log>>

\* _execute_parallel_tasks resumed: gather returned or raised
ResumeParallel ==
    /\ cur /= 0
    /\ Pc(cur) = "gather"
    /\ IF procs[cur].exc /= ""
       THEN Throw(cur, procs[cur].exc, Len(procs[cur].stack))
       ELSE /\ procs' = SetTop(cur, [Top(cur) EXCEPT !.pc = "walk"])
            /\ UNCHANGED <<workflows, next_tasks, execution, context, executions, ready, cur, log>>

\* _execute_conditional_task up to the call of the branch it selects
ExecuteConditionalTask ==
    /\ cur /= 0
    /\ Pc(cur) = "dispatch"
    /\ TaskOf(cur).type = "conditional"
    /\ LET p == cur
           f == Top(p)
           task == TaskOf(p)
           nt == NextTasksOf(p)
           condition_result == Truthy(evaluate_condition(task.condition, context[procs[p].run]))
       IN
       IF task.condition = <<>>
       THEN Throw(p, "Conditional task requires a condition", Len(procs[p].stack))
       ELSE /\ procs' = IF condition_result /\ Len(nt) > 0
                            THEN Call(p, [f EXCEPT !.pc = "walk"], nt[1])
                        ELSE IF ~condition_result /\ Len(nt) > 1
                            THEN Call(p, [f EXCEPT !.pc = "walk"], nt[2])
                        ELSE SetTop(p, [f EXCEPT !.pc = "walk"])
            /\ UNCHANGED <<workflows, next_tasks, execution, context, executions, ready, cur, log>>

\* _execute_loop_task: read the iteration cap
ExecuteLoopTask ==
    /\ cur /= 0
    /\ Pc(cur) = "dispatch"
    /\ TaskOf(cur).type = "loop"
    /\ LET p == cur
           f == Top(p)
           max_iterations == ContextGet(context[procs[p].run], "max_loop_iterations",
                                        VInt(DefaultMaxLoopIterations))
       IN
       IF ~IsNumber(max_iterations)
       THEN Throw(p, "object cannot be interpreted as an integer", Len(procs[p].stack))
       ELSE /\ procs' = SetTop(p, [f EXCEPT !.pc = "loop", !.i = 0,
                                            !.maxit = NumVal(max_iterations)])
            /\ UNCHANGED <<workflows, next_tasks, execution, context, executions, ready, cur, log>>

\* a loop turn that writes loop_index into a context all executions share
LoopIterationSharedContext ==
    /\ cur /= 0
    /\ Pc(cur) = "loop"
    /\ LET p == cur
           f == Top(p)
           r == procs[p].run
           task == TaskOf(p)
           nt == NextTasksOf(p)
           ctx == ContextSet(context[r], "loop_index", VInt(f.i))
       IN
       IF f.i >= f.maxit
       THEN /\ procs' = SetTop(p, [f EXCEPT !.pc = "walk"])
            /\ UNCHANGED context
       ELSE /\ context' = [q \in DOMAIN context |->
                            IF q = r THEN ctx ELSE ContextSet(context[q], "loop_index", VInt(f.i))]
            /\ procs' =
                IF task.condition /= <<>> /\ ~Truthy(evaluate_condition(task.condition, ctx))
                    THEN SetTop(p, [f EXCEPT !.pc = "walk"])
                ELSE IF nt /= <<>>
                    THEN Call(p, [f EXCEPT !.i = f.i + 1], nt[1])
                ELSE SetTop(p, [f EXCEPT !.i = f.i + 1])
    /\ UNCHANGED <<workflows, next_tasks, execution, executions, ready, cur, log>>

\* _execute_loop_task: one turn of the for loop, up to the call of the body
LoopIteration ==
    /\ cur /= 0
    /\ Pc(cur) = "loop"
    /\ LET p == cur
           f == Top(p)
           r == procs[p].run
           task == TaskOf(p)
           nt == NextTasksOf(p)
           ctx == ContextSet(context[r], "loop_index", VInt(f.i))
       IN
       IF f.i >= f.maxit
       THEN /\ procs' = SetTop(p, [f EXCEPT !.pc = "walk"])
            /\ UNCHANGED context
       ELSE /\ context' = [context EXCEPT ![r] = ctx]
            /\ procs' =
                IF task.condition /= <<>> /\ ~Truthy(evaluate_condition(task.condition, ctx))
                    THEN SetTop(p, [f EXCEPT !.pc = "walk"])
                ELSE IF nt /= <<>>
                    THEN Call(p, [f EXCEPT !.i = f.i + 1], nt[1])
                ELSE SetTop(p, [f EXCEPT !.i = f.i + 1])
    /\ UNCHANGED <<workflows, next_tasks, execution, executions, ready, cur, log>>

\* _execute_task: the walk of task.next_tasks after the dispatch, one call
\* per step; the list is the one task.next_tasks held when the walk began
NextTasks ==
    /\ cur /= 0
    /\ Pc(cur) \in {"walk", "next"}
    /\ LET p == cur
           f == Top(p)
           lst == IF f.pc = "walk" THEN NextTasksOf(p) ELSE f.lst
           k == IF f.pc = "walk" THEN 1 ELSE f.k
       IN
       /\ k <= Len(lst)
       /\ procs' = Call(p, [f EXCEPT !.pc = "next", !.lst = lst, !.k = k + 1], lst[k])
    /\ UNCHANGED <<workflows, next_tasks, execution, context, executions, ready, cur, log>>

\* _execute_task returns to its caller; the outermost one ends its coroutine
Return ==
    /\ cur /= 0
    /\ Pc(cur) \in {"walk", "next"}
    /\ LET p == cur
           f == Top(p)
           lst == IF f.pc = "walk" THEN NextTasksOf(p) ELSE f.lst
           k == IF f.pc = "walk" THEN 1 ELSE f.k
           exit == <<Event("exit", procs[p].run, f.task)>>
       IN
       /\ k > Len(lst)
       /\ IF Len(procs[p].stack) = 1
          THEN /\ EndProc(p, "", exit)
               /\ UNCHANGED context
          ELSE /\ procs' = [procs EXCEPT ![p].stack = SubSeq(@, 1, Len(@) - 1)]
               /\ log' = log \o exit
               /\ UNCHANGED <<execution, context, executions, ready, cur>>
    /\ UNCHANGED <<workflows, next_tasks>>

Next ==
    \/ \E w \in DOMAIN workflows \cup {UnknownWorkflowId} :
            \E j \in 1..Len(Inputs(w)) : Request(w, Inputs(w)[j])
    \/ \E o \in 1..Len(Definitions) : RegisterWorkflow(o)
    \/ ExecuteWorkflow
    \/ Schedule
    \/ EnterTask
    \/ ExecuteSequentialTask
    \/ \E p \in 1..Len(procs) : HandlerReturn(p)
    \/ ResumeSequential
    \/ ExecuteParallelTasks
    \/ ResumeParallel
    \/ ExecuteConditionalTask
    \/ ExecuteLoopTask
    \/ LoopIteration
    \/ NextTasks
    \/ Return

Spec == Init /\ [][Next]_vars

\* a step of the coroutine that holds the event loop
Step ==
    \/ ExecuteWorkflow
    \/ EnterTask
    \/ ExecuteSequentialTask
    \/ ResumeSequential
    \/ ExecuteParallelTasks
    \/ ResumeParallel
    \/ ExecuteConditionalTask
    \/ ExecuteLoopTask
    \/ LoopIteration
    \/ NextTasks
    \/ Return

\* The event loop keeps running: the coroutine that holds it runs on to its
\* next await, a ready coroutine is scheduled, and every handler that was
\* invoked returns in the end.
LiveSpec ==
    /\ Spec
    /\ WF_vars(Step)
    /\ WF_vars(Schedule)
    /\ WF_vars(\E p \in 1..Len(procs) : HandlerReturn(p))

TypeOK ==
    /\ cur \in 0..Len(procs)
    /\ \A r \in Runs : execution[r].status \in {"running", "completed", "failed"}

\* ------------------------------------------------------------ observations
\* the WorkflowDefinition object execute_workflow looked up for run r
DefOf(r) == procs[CHOOSE p \in 1..Len(procs) : procs[p].run = r /\ procs[p].parent = 0].def

TasksOf(r) == Definitions[DefOf(r)].tasks

History(r) == context[r].execution_history

\* how many times task t was entered in run r
Count(r, t) == Cardinality({j \in 1..Len(History(r)) : History(r)[j].task_id = t})

\* the task ids of the history of run r, in entry order
Visited(r) == [j \in 1..Len(History(r)) |-> History(r)[j].task_id]

\* the record execute_workflow returned for run r, as a caller reads it
Record(r) ==
    [status |-> execution[r].status,
     errors |-> execution[r].errors,
     task_executions |-> execution[r].task_executions,
     context |-> IF execution[r].context_set
                 THEN [variables |-> context[r].variables,
                       agent_outputs |-> context[r].agent_outputs]
                 ELSE EmptyDict]

\* get_execution(execution_id) of the API: the stored record, or 404
GetExecution(execution_id) ==
    IF execution_id \notin executions
    THEN [found |-> FALSE, execution |-> EmptyDict]
    ELSE [found |-> TRUE, execution |-> Record(execution_id)]

\* a handler of run r returned status failed or raised
HandlerFailed(r) ==
    \E j \in 1..Len(log) : log[j].run = r /\ log[j].e \in {"failed", "raised"}

\* position of the first handler failure of run r in the log
FirstFailure(r) ==
    CHOOSE j \in 1..Len(log) :
        /\ log[j].run = r /\ log[j].e \in {"failed", "raised"}
        /\ \A i \in 1..(j - 1) : ~(log[i].run = r /\ log[i].e \in {"failed", "raised"})

\* ------------------------------------------------------------------ claims
\* C1: if the handler of a Sequential task reports status failed or raises,
\* the run ends failed with an error in errors and no task is entered after
\* the failure; a run in which a handler failed never ends completed.
C1_HandlerFailureFailsRun ==
    \A r \in executions :
        HandlerFailed(r) =>
            /\ execution[r].status = "failed"
            /\ execution[r].errors /= <<>>
            /\ \A j \in 1..Len(log) :
                    (log[j].run = r /\ log[j].e = "enter") => j < FirstFailure(r)

\* the elements of a sequence
Range(seq) == {seq[j] : j \in 1..Len(seq)}

\* the successor list task t of run r's definition was registered with
Declared(r, t) == TasksOf(r)[t].next_tasks

\* C2: each time a Conditional node is entered, at most one of its
\* successors is entered because of it, and at most once: successors[0] only
\* when the condition evaluated true, successors[1] only when it evaluated
\* false.  (In the definitions checked the successors of a Conditional node
\* have no other predecessor, so each of their entries is because of it.)
C2_ConditionalOneBranch ==
    \A r \in executions : \A t \in DOMAIN TasksOf(r) :
        (TasksOf(r)[t].type = "conditional" /\ Len(Declared(r, t)) = 2) =>
            LET first == Declared(r, t)[1]
                second == Declared(r, t)[2]
                taken == Truthy(evaluate_condition(TasksOf(r)[t].condition, context[r]))
            IN
            /\ Count(r, first) + Count(r, second) <= Count(r, t)
            /\ Count(r, first) > 0 => taken
            /\ Count(r, second) > 0 => ~taken

\* the iteration cap run r reads (callers pass it as input, nothing writes it)
LoopCap(r) ==
    NumVal(ContextGet(context[r], "max_loop_iterations", VInt(DefaultMaxLoopIterations)))

\* C3: a Loop node whose condition is always true and whose context has
\* max_loop_iterations = n (10 when absent) executes its body exactly n
\* times per entry of the node, with loop_index 0..n-1 written in order,
\* each before the corresponding iteration: once the run has ended the body
\* has n entries per entry of the node and loop_index is n-1.
C3_LoopBodyExactlyNTimes ==
    \A r \in executions : \A t \in DOMAIN TasksOf(r) :
        (TasksOf(r)[t].type = "loop" /\ TasksOf(r)[t].condition = <<Txt("True")>>) =>
            /\ Count(r, Declared(r, t)[1]) = LoopCap(r) * Count(r, t)
            /\ LoopCap(r) > 0 => context[r].variables["loop_index"] = VInt(LoopCap(r) - 1)

\* C4: executing a workflow never modifies the registered definition: every
\* task's successor list is the one it was registered with.
C4_DefinitionUnchanged ==
    \A o \in DOMAIN next_tasks : \A t \in DOMAIN next_tasks[o] :
        next_tasks[o][t] = Definitions[o].tasks[t].next_tasks

\* C5: in every run in which a Parallel node is entered, each of its
\* declared successors is entered exactly once in that run.
C5_ParallelSuccessorsOnce ==
    \A r \in executions : \A t \in DOMAIN TasksOf(r) :
        (TasksOf(r)[t].type = "parallel" /\ Count(r, t) > 0) =>
            \A s \in Range(Declared(r, t)) : Count(r, s) = 1

\* the tasks reachable from the tasks S along the declared successor lists
RECURSIVE ReachFrom(_, _)
ReachFrom(tasks, S) ==
    LET S2 == S \cup UNION {Range(tasks[t].next_tasks) : t \in S \cap DOMAIN tasks} IN
    IF S2 = S THEN S ELSE ReachFrom(tasks, S2)

\* the tasks in the successor subtrees of task t of run r's definition
Subtree(r, t) == ReachFrom(TasksOf(r), Range(Declared(r, t)))

\* P is a Parallel node and Y follows it in some task's successor list
FollowsParallel(r, P, Y) ==
    /\ P \in DOMAIN TasksOf(r)
    /\ TasksOf(r)[P].type = "parallel"
    /\ \E u \in DOMAIN TasksOf(r) : \E j \in 1..(Len(Declared(r, u)) - 1) :
            Declared(r, u)[j] = P /\ Declared(r, u)[j + 1] = Y

\* C6: if a Parallel node P is followed by a task Y in the same successor
\* list, Y is entered only after every task in every successor subtree of P
\* has finished, in every run and under every interleaving.
C6_ParallelBarrierBeforeNext ==
    \A j \in 1..Len(log) :
        log[j].e = "enter" =>
            \A P \in DOMAIN TasksOf(log[j].run) :
                FollowsParallel(log[j].run, P, log[j].task) =>
                    \A s \in Subtree(log[j].run, P) :
                        \E i \in 1..(j - 1) : log[i] = Event("exit", log[j].run, s)

\* C7: a Parallel node finishes only after every one of its successor
\* subtrees has finished, so once a run has reached a terminal status none
\* of its coroutines is still alive and no handler of it is invoked or
\* completes.
C7_NothingRunsAfterTerminal ==
    /\ \A r \in executions : \A p \in 1..Len(procs) :
            procs[p].run = r => procs[p].st = "done"
    /\ \A i, j \in 1..Len(log) :
            (i < j /\ log[i].e = "terminal" /\ log[j].run = log[i].run) =>
                log[j].e \notin {"invoke", "result", "failed", "raised"}

\* C8: once execute_workflow has returned a record, its context snapshot,
\* taskExecutions and errors never change.
C8_ReturnedRecordImmutable ==
    [][\A r \in executions : Record(r)' = Record(r)]_vars

\* C9: in the end-to-end graph, input flag = true enters exactly A, B, C and
\* input flag = false enters exactly A, B, D.
C9_EndToEndBranch ==
    \A r \in executions :
        (execution[r].workflow_id = "wf_e2e" /\ "flag" \in DOMAIN context[r].variables) =>
            Visited(r) = IF context[r].variables["flag"].b
                         THEN <<"A", "B", "C">> ELSE <<"A", "B", "D">>

\* the condition references a placeholder with no value in the variables
MissingPlaceholder(condition, variables) ==
    \E j \in 1..Len(condition) :
        condition[j].k \in {"ph", "qph"} /\ condition[j].s \notin DOMAIN variables

\* the text left after substitution is no valid expression
Malformed(condition, variables) == ~PyEval(Substitute(condition, variables)).ok

\* C10: a condition that is malformed or references a placeholder with no
\* value evaluates to false and never raises: a Conditional takes the path
\* of a false condition (successors[1] first), a Loop stops at its first
\* iteration, and nothing is appended to errors.
C10_BadConditionIsFalse ==
    \A r \in Runs : \A t \in DOMAIN TasksOf(r) :
        LET task == TasksOf(r)[t] IN
        (/\ task.condition /= <<>>
         /\ \/ Malformed(task.condition, context[r].variables)
            \/ MissingPlaceholder(task.condition, context[r].variables)) =>
            /\ ~Truthy(evaluate_condition(task.condition, context[r]))
            /\ r \in executions =>
                /\ execution[r].errors = <<>>
                /\ (task.type = "conditional" /\ Len(History(r)) >= 2
                        /\ History(r)[1].task_id = t) =>
                            History(r)[2].task_id = Declared(r, t)[2]
                /\ (task.type = "loop" /\ "loop_index" \in DOMAIN context[r].variables) =>
                            context[r].variables["loop_index"] = VInt(0)

\* the output key task t of run r's definition was declared with
OutputKey(r, t) == TasksOf(r)[t].output_key

\* some handler of a task of run r with output key k returned status completed
CompletedUnder(r, k) ==
    \E j \in 1..Len(log) :
        /\ log[j].run = r /\ log[j].e = "result"
        /\ OutputKey(r, log[j].task) = k

\* C11: for every run and every Sequential task T with output key k: if T's
\* handler returned status completed, the final context's agent_outputs binds
\* k to that handler's output; if it returned status failed and no handler
\* completed under k, k is absent from the final agent_outputs.
C11_OutputKeyIffCompleted ==
    \A r \in executions : \A t \in DOMAIN execution[r].task_executions :
        LET k == OutputKey(r, t)
            agent_execution == execution[r].task_executions[t]
            agent_outputs == Record(r).context.agent_outputs
        IN
        k /= "" =>
            /\ agent_execution.status = "completed" =>
                    /\ k \in DOMAIN agent_outputs
                    /\ agent_outputs[k] = VDict(agent_execution.output_data)
            /\ (agent_execution.status = "failed" /\ ~CompletedUnder(r, k)) =>
                    k \notin DOMAIN agent_outputs

\* the task whose handler was the last of run r to complete under output key k
LastCompletedUnder(r, k) ==
    LET last == CHOOSE j \in 1..Len(log) :
                    /\ log[j].run = r /\ log[j].e = "result" /\ OutputKey(r, log[j].task) = k
                    /\ \A i \in (j + 1)..Len(log) :
                            ~(log[i].run = r /\ log[i].e = "result"
                                /\ OutputKey(r, log[i].task) = k)
    IN log[last].task

\* the output keys of the tasks of run r's definition
OutputKeys(r) == {OutputKey(r, t) : t \in DOMAIN TasksOf(r)} \ {""}

\* C11 (amended): for every run and every output key k: if some handler
\* of a task with output key k returned status completed, the final
\* context's agent_outputs binds k to the output of the last of them to
\* complete (a task sharing its key with a task that completed later is
\* overwritten); if none did, k is absent from the final agent_outputs.
C11_OutputKeyLastCompleted ==
    \A r \in executions : \A k \in OutputKeys(r) :
        LET agent_outputs == Record(r).context.agent_outputs IN
        IF CompletedUnder(r, k)
        THEN /\ k \in DOMAIN agent_outputs
             /\ agent_outputs[k] =
                    VDict(execution[r].task_executions[LastCompletedUnder(r, k)].output_data)
        ELSE k \notin DOMAIN agent_outputs

\* a returned run in which one keyed task completed and another one failed
C11_Witness ==
    \E r \in executions : \E t, u \in DOMAIN execution[r].task_executions :
        /\ OutputKey(r, t) /= "" /\ execution[r].task_executions[t].status = "completed"
        /\ OutputKey(r, t) \in DOMAIN Record(r).context.agent_outputs
        /\ OutputKey(r, u) /= "" /\ execution[r].task_executions[u].status = "failed"
        /\ OutputKey(r, u) \notin DOMAIN Record(r).context.agent_outputs

\* every task id the definition refers to names one of its tasks
WellFormed(def) ==
    /\ def.entry_task_id \in DOMAIN def.tasks
    /\ \A t \in DOMAIN def.tasks : Range(def.tasks[t].next_tasks) \subseteq DOMAIN def.tasks

\* C12: register_workflow stores no definition whose entry_task_id or any
\* successor id does not name a task of that definition; consequently no
\* execution of a registered workflow ever calls _execute_task with a task
\* id its definition does not have.
C12_NoDanglingRegistered ==
    /\ \A w \in DOMAIN workflows : WellFormed(Definitions[workflows[w]])
    /\ \A p \in 1..Len(procs) : \A j \in 1..Len(procs[p].stack) :
            procs[p].stack[j].task \in DOMAIN Definitions[procs[p].def].tasks

\* C13: execute_workflow called with a workflow id that is not registered
\* raises the not-found error to its caller and does nothing else: no
\* WorkflowExecution is created or stored, no handler is invoked, and the
\* registries of workflows and executions are as before (the registry of
\* agents is written by register_agent only).
C13_UnknownWorkflowNotFound ==
    [][(/\ cur /= 0
        /\ Pc(cur) = "start"
        /\ procs[cur].res \notin DOMAIN workflows
        /\ procs'[cur] /= procs[cur]) =>
            /\ procs' = [procs EXCEPT ![cur].st = "done",
                                      ![cur].exc = NotFound(procs[cur].res)]
            /\ UNCHANGED <<workflows, next_tasks, execution, context, executions, ready, log>>]_vars

\* a call with an unknown id has raised while an execution was stored
C13_Witness ==
    /\ executions /= {}
    /\ \E p \in 1..Len(procs) :
            procs[p].st = "done" /\ procs[p].exc = NotFound(UnknownWorkflowId)

\* position in the log at which run r reached its terminal status
TerminalAt(r) == CHOOSE j \in 1..Len(log) : log[j] = Event("terminal", r, "")

\* C14: when a run fails part-way, the returned record has status failed,
\* the failure message appended to errors, completed_at and the duration
\* set, and its context snapshot holds every variable the run was seeded
\* with and every agent output written before the failure.
C14_FailedRunFinalized ==
    \A r \in executions :
        execution[r].status = "failed" =>
            /\ Len(execution[r].errors) = 1
            /\ execution[r].errors[1] /= ""
            /\ (\E j \in 1..TerminalAt(r) : log[j].run = r /\ log[j].e = "raised") =>
                    execution[r].errors[1] = HandlerError
            /\ execution[r].completed
            /\ execution[r].context_set
            /\ DOMAIN Definitions[DefOf(r)].variables \subseteq DOMAIN Record(r).context.variables
            /\ \A j \in 1..TerminalAt(r) :
                    (log[j].run = r /\ log[j].e = "result" /\ OutputKey(r, log[j].task) /= "") =>
                        /\ OutputKey(r, log[j].task) \in DOMAIN Record(r).context.agent_outputs
                        /\ Record(r).context.agent_outputs[OutputKey(r, log[j].task)]
                                = VDict(execution[r].task_executions[log[j].task].output_data)

\* a failed run whose snapshot holds an output written before the failure
C14_Witness ==
    \E r \in executions :
        /\ execution[r].status = "failed"
        /\ \E j \in 1..TerminalAt(r) :
                /\ log[j].run = r /\ log[j].e = "result"
                /\ OutputKey(r, log[j].task) \in DOMAIN Record(r).context.agent_outputs

\* C15: execute_workflow seeds the context variables with exactly the union
\* of the definition's default variables and input_data, a key present in
\* both taking the caller's value; agent_outputs starts empty and the
\* execution has status running while the entry task is still to be entered.
C15_ContextSeeded ==
    [][(/\ cur /= 0
        /\ Pc(cur) = "start"
        /\ procs[cur].res \in DOMAIN workflows
        /\ procs'[cur] /= procs[cur]) =>
            LET r == Len(execution) + 1
                definition == Definitions[workflows[procs[cur].res]]
                defaults == definition.variables
                input_data == procs[cur].arg
            IN
            /\ Len(execution') = r /\ Len(context') = r
            /\ DOMAIN context'[r].variables = DOMAIN defaults \cup DOMAIN input_data
            /\ \A key \in DOMAIN input_data : context'[r].variables[key] = input_data[key]
            /\ \A key \in DOMAIN defaults \ DOMAIN input_data :
                    context'[r].variables[key] = defaults[key]
            /\ context'[r].agent_outputs = EmptyDict
            /\ context'[r].execution_history = <<>>
            /\ execution'[r].status = "running"
            /\ procs'[cur].stack = <<Frame(definition.entry_task_id)>>]_vars

\* a run just started whose caller overrode a default variable
C15_Witness ==
    \E r \in Runs :
        /\ History(r) = <<>>
        /\ execution[r].status = "running"
        /\ "request" \in DOMAIN Definitions[DefOf(r)].variables
        /\ context[r].variables["request"] = VStr("override")
        /\ Definitions[DefOf(r)].variables["request"] /= VStr("override")

\* the keys the context operations are probed with: every key of either
\* namespace and one that is in neither
ProbeKeys(ctx) == DOMAIN ctx.variables \cup DOMAIN ctx.agent_outputs \cup {"nothing"}

ProbeValues == {VNone, VInt(DefaultMaxLoopIterations), VStr("probe")}

\* d2 is d with key bound to value and every other key as it was
IsUpdate(d2, d, key, value) ==
    /\ DOMAIN d2 = DOMAIN d \cup {key}
    /\ d2[key] = value
    /\ \A other \in DOMAIN d \ {key} : d2[other] = d[other]

\* get, set and set_agent_output on the context ctx
ContextContract(ctx) ==
    \A key \in ProbeKeys(ctx) : \A value \in ProbeValues :
        /\ ContextGet(ctx, key, value) =
                IF key \in DOMAIN ctx.variables THEN ctx.variables[key]
                ELSE IF key \in DOMAIN ctx.agent_outputs THEN ctx.agent_outputs[key]
                ELSE value
        /\ IsUpdate(ContextSet(ctx, key, value).variables, ctx.variables, key, value)
        /\ ContextSet(ctx, key, value).agent_outputs = ctx.agent_outputs
        /\ IsUpdate(ContextSetAgentOutput(ctx, key, value).agent_outputs,
                    ctx.agent_outputs, key, value)
        /\ ContextSetAgentOutput(ctx, key, value).variables = ctx.variables

\* a step that only reads the context: the Loop node reading its cap, or a
\* Sequential task resolving its input mapping before it awaits its handler
ReadsContextOnly ==
    /\ cur /= 0
    /\ Pc(cur) = "dispatch"
    /\ \/ TaskOf(cur).type = "loop" /\ procs'[cur] /= procs[cur]
       \/ TaskOf(cur).type = "sequential" /\ procs'[cur].st = "await_handler"

\* C16: get(key, default) returns the variables value whenever the key is
\* in variables (also when it is in agent_outputs too), otherwise the
\* agent_outputs value when the key is there, otherwise the default; set
\* writes only variables, set_agent_output writes only agent_outputs, and a
\* step that only calls get leaves both namespaces as they were.
C16_ContextGetSet ==
    /\ [](\A r \in Runs : ContextContract(context[r]))
    /\ [][ReadsContextOnly =>
            /\ context'[procs[cur].run].variables = context[procs[cur].run].variables
            /\ context'[procs[cur].run].agent_outputs = context[procs[cur].run].agent_outputs]_vars

\* a handler was called with the value of a key that is in both namespaces
C16_Witness ==
    \E r \in Runs : \E t \in DOMAIN execution[r].task_executions :
        \E target \in DOMAIN TasksOf(r)[t].input_mapping :
            LET key == TasksOf(r)[t].input_mapping[target] IN
            /\ key \in DOMAIN context[r].variables
            /\ key \in DOMAIN context[r].agent_outputs
            /\ context[r].variables[key] /= context[r].agent_outputs[key]
            /\ target \in DOMAIN execution[r].task_executions[t].output_data
            /\ execution[r].task_executions[t].output_data[target] = context[r].variables[key]

\* the key is bound in one of the two namespaces of the context
Present(ctx, key) == key \in DOMAIN ctx.variables \cup DOMAIN ctx.agent_outputs

\* the input_data a Sequential task's handler was called with in this step,
\* where the step shows it: the argument a suspended call holds, or the
\* output of a handler that echoes its input
PassedInput ==
    IF Agents[TaskOf(cur).agent_id].suspends THEN procs'[cur].arg
    ELSE execution'[procs[cur].run].task_executions[Top(cur).task].output_data

\* C17: the input passed to a Sequential task's handler binds, for each
\* input_mapping entry whose source key is present in the context, the target
\* name to the context's value for that key, and omits exactly the entries
\* whose source key is absent; a missing source key never fails the task.
C17_InputMappingPresentKeys ==
    [][(/\ cur /= 0
        /\ Pc(cur) = "dispatch"
        /\ TaskOf(cur).type = "sequential"
        /\ TaskOf(cur).agent_id \in DOMAIN Agents
        /\ Agents[TaskOf(cur).agent_id].suspends \/ Agents[TaskOf(cur).agent_id].echo
        /\ procs'[cur] /= procs[cur]) =>
            LET ctx == context[procs[cur].run]
                input_mapping == TaskOf(cur).input_mapping
            IN
            /\ procs'[cur].st /= "done"
            /\ \A target \in DOMAIN input_mapping :
                    IF Present(ctx, input_mapping[target])
                    THEN /\ target \in DOMAIN PassedInput
                         /\ PassedInput[target] = ContextGet(ctx, input_mapping[target], VNone)
                    ELSE target \notin DOMAIN PassedInput]_vars

\* Y comes right after X in the successor list of a Sequential task of run r
NextInList(r, X, Y) ==
    \E u \in DOMAIN TasksOf(r) :
        /\ TasksOf(r)[u].type = "sequential"
        /\ \E i \in 1..(Len(Declared(r, u)) - 1) :
                Declared(r, u)[i] = X /\ Declared(r, u)[i + 1] = Y

\* before position j of the log the call of _execute_task on X in run r returned
FinishedBefore(r, X, j) == \E i \in 1..(j - 1) : log[i] = Event("exit", r, X)

\* before position j of the log a handler in the subtree of X reported
\* status failed or raised in run r
FailedBefore(r, X, j) ==
    \E i \in 1..(j - 1) :
        /\ log[i].run = r /\ log[i].e \in {"failed", "raised"}
        /\ log[i].task \in ReachFrom(TasksOf(r), {X})

\* C18: the successors of a task are entered one at a time in list order:
\* successor i+1 is entered only after the whole subtree of successor i has
\* finished, and never if the subtree of successor i failed.
C18_SuccessorsInOrder ==
    \A j \in 1..Len(log) :
        log[j].e = "enter" =>
            \A X \in DOMAIN TasksOf(log[j].run) :
                NextInList(log[j].run, X, log[j].task) =>
                    /\ FinishedBefore(log[j].run, X, j)
                    /\ ~FailedBefore(log[j].run, X, j)

\* C19: a Loop node never causes any of its successors other than
\* successors[0] to be entered: a successor that follows the body in the
\* Loop's list is not entered in a run that enters the Loop.  (In the
\* definitions checked such a successor has no other predecessor.)
C19_LoopEntersBodyOnly ==
    \A r \in Runs : \A t \in DOMAIN TasksOf(r) :
        TasksOf(r)[t].type = "loop" =>
            \A i \in 2..Len(Declared(r, t)) :
                Declared(r, t)[i] /= Declared(r, t)[1] => Count(r, Declared(r, t)[i]) = 0

\* C20: a Conditional node whose selected branch is missing (condition true
\* with no successors, or condition false with fewer than two successors)
\* enters no successor at all, and the run is not failed by it.
C20_MissingBranchIsNoOp ==
    \A r \in Runs : \A t \in DOMAIN TasksOf(r) :
        LET task == TasksOf(r)[t]
            taken == Truthy(evaluate_condition(task.condition, context[r]))
        IN
        (/\ task.type = "conditional"
         /\ task.condition /= <<>>
         /\ IF taken THEN Len(Declared(r, t)) = 0 ELSE Len(Declared(r, t)) < 2) =>
            /\ \A s \in Range(Declared(r, t)) : Count(r, s) = 0
            /\ execution[r].status /= "failed"

\* the condition of Loop node t of run r is true at iteration k
TrueAt(r, t, k) ==
    Truthy(evaluate_condition(TasksOf(r)[t].condition,
                              ContextSet(context[r], "loop_index", VInt(k))))

\* the condition of Loop node t of run r first evaluates false at iteration
\* k, below the iteration cap
FirstFalseAt(r, t, k) ==
    /\ k < LoopCap(r)
    /\ ~TrueAt(r, t, k)
    /\ \A i \in 0..(k - 1) : TrueAt(r, t, i)

\* C21: in a Loop node the condition is evaluated before every iteration,
\* after loop_index has been written; at the first iteration k at which it
\* evaluates false the loop stops: once the run has ended the body has k
\* entries per entry of the node and loop_index is left at k.
C21_LoopStopsWhenFalse ==
    \A r \in executions : \A t \in DOMAIN TasksOf(r) :
        (TasksOf(r)[t].type = "loop" /\ TasksOf(r)[t].condition /= <<>>) =>
            \A k \in 0..DefaultMaxLoopIterations :
                FirstFalseAt(r, t, k) =>
                    /\ context[r].variables["loop_index"] = VInt(k)
                    /\ Count(r, Declared(r, t)[1]) = k * Count(r, t)

\* the coroutine holding the event loop enters a task of run r in this step
Enters(r) ==
    /\ cur /= 0
    /\ procs[cur].run = r
    /\ Pc(cur) = "enter"
    /\ Top(cur).task \in DOMAIN Definitions[procs[cur].def].tasks
    /\ procs'[cur] /= procs[cur]

\* the history of run r lists an ancestor before the tasks of its subtree
AncestorsFirst(r) ==
    \A i \in 1..Len(History(r)) : \A t \in DOMAIN TasksOf(r) :
        (Visited(r)[i] /= t /\ Visited(r)[i] \in Subtree(r, t)) =>
            \E j \in 1..(i - 1) : Visited(r)[j] = t

\* C22: each time a task is entered exactly one history entry (task id,
\* type) is appended at that moment and nothing else adds, removes or
\* reorders entries, so the history lists the entries in entry order: its
\* first entry is the entry task and every task's entry precedes those of
\* the tasks in its subtree, under every interleaving of Parallel branches.
C22_HistoryInEntryOrder ==
    /\ [](\A r \in Runs :
            History(r) /= <<>> =>
                /\ Visited(r)[1] = Definitions[DefOf(r)].entry_task_id
                /\ AncestorsFirst(r))
    /\ [][\A r \in Runs :
            IF Enters(r)
            THEN /\ Visited(r)' = Append(Visited(r), Top(cur).task)
                 /\ History(r)'[Len(History(r)) + 1].type = TaskOf(cur).type
            ELSE Visited(r)' = Visited(r)]_vars

\* a Parallel node's branches have been entered while both were in flight
C22_Witness ==
    \E r \in Runs : \E p, q \in 1..Len(procs) :
        /\ p /= q
        /\ procs[p].run = r /\ procs[q].run = r
        /\ procs[p].st = "await_handler" /\ procs[q].st = "await_handler"
        /\ Len(History(r)) >= 4

\* C23: the WorkflowExecution returned by execute_workflow and stored for
\* retrieval carries the run's execution history: one entry per task
\* entered during the run, in entry order.
C23_RecordCarriesHistory ==
    \A r \in executions :
        \/ /\ "execution_history" \in DOMAIN Record(r)
           /\ Record(r).execution_history = History(r)
        \/ /\ "execution_history" \in DOMAIN Record(r).context
           /\ Record(r).context.execution_history = History(r)

\* the task ids _execute_task enters when it walks the subtree of t, and of
\* each task of lst in turn, in a definition of Sequential tasks
RECURSIVE Walk(_, _), WalkList(_, _)
Walk(tasks, t) == <<t>> \o WalkList(tasks, tasks[t].next_tasks)

WalkList(tasks, lst) ==
    IF lst = <<>> THEN <<>> ELSE Walk(tasks, Head(lst)) \o WalkList(tasks, Tail(lst))

\* every id of the definition names one of its tasks, all of them Sequential
OnlySequential(def) ==
    /\ WellFormed(def)
    /\ \A t \in DOMAIN def.tasks : def.tasks[t].type = "sequential"

IsPrefix(s, t) == Len(s) <= Len(t) /\ s = SubSeq(t, 1, Len(s))

\* the definition object o is registered in this step under a registered id
Registers(o) ==
    /\ o \notin DOMAIN next_tasks
    /\ o \in DOMAIN next_tasks'

\* C24: registering a definition under an id that is already registered
\* replaces the stored definition and touches no execution; an execution
\* holds the definition that was registered when it started, so one that
\* started before the re-registration keeps walking the old definition's
\* tasks to its end, and one started afterwards walks the new definition.
C24_ReregistrationKeepsInFlight ==
    /\ [][\A o \in 1..Len(Definitions) :
            Registers(o) =>
                /\ workflows' = [workflows EXCEPT ![Definitions[o].id] = o]
                /\ \A other \in DOMAIN next_tasks : next_tasks'[other] = next_tasks[other]
                /\ UNCHANGED <<execution, context, executions, procs, ready>>]_vars
    /\ [][/\ \A p \in 1..Len(procs) : procs[p].run /= 0 => procs'[p].def = procs[p].def
          /\ (cur /= 0 /\ Pc(cur) = "start" /\ procs'[cur].run /= 0) =>
                procs'[cur].def = workflows[procs[cur].res]]_vars
    /\ [](\A r \in Runs :
            OnlySequential(Definitions[DefOf(r)]) =>
                LET walk == Walk(TasksOf(r), Definitions[DefOf(r)].entry_task_id) IN
                /\ IsPrefix(Visited(r), walk)
                /\ (r \in executions /\ execution[r].status = "completed") => Visited(r) = walk)

\* a run that was in flight when its workflow id was registered again has
\* completed on the old definition, and a run started afterwards has
\* completed on the new one
C24_Witness ==
    \E r, q \in executions : \E i, j, k \in 1..Len(log) :
        /\ i < j /\ j < k
        /\ log[i] = Event("start", r, "")
        /\ log[j] = Event("register", 0, execution[r].workflow_id)
        /\ log[k] = Event("start", q, "")
        /\ \E m \in 1..Len(log) : j < m /\ log[m] = Event("terminal", r, "")
        /\ execution[q].workflow_id = execution[r].workflow_id
        /\ execution[r].status = "completed" /\ execution[q].status = "completed"
        /\ DefOf(r) /= DefOf(q)
        /\ DefOf(q) = workflows[execution[q].workflow_id]
        /\ Visited(r) /= Visited(q)

\* the variables or the agent outputs of run r's context change in this step
ContextWritten(r) ==
    \/ context'[r].variables /= context[r].variables
    \/ context'[r].agent_outputs /= context[r].agent_outputs

\* C25: two executions interleaved in time never touch each other's
\* context: the variables (loop_index among them) and the agent outputs of
\* a run are written only by a step of a coroutine of that run, and no step
\* changes the input_data mapping of a call that has not started yet.
C25_ContextsIsolated ==
    [][/\ \A r \in Runs :
            ContextWritten(r) => (cur /= 0 /\ procs[cur].run = r)
       /\ \A p \in 1..Len(procs) :
            (procs[p].run = 0 /\ procs'[p].run = 0) => procs'[p].arg = procs[p].arg]_vars

\* two runs in flight at once whose contexts hold different values of
\* loop_index and different agent outputs
C25_Witness ==
    \E r, q \in Runs \ executions :
        /\ r /= q
        /\ "loop_index" \in DOMAIN context[r].variables
        /\ "loop_index" \in DOMAIN context[q].variables
        /\ context[r].variables["loop_index"] /= context[q].variables["loop_index"]
        /\ context[r].agent_outputs /= context[q].agent_outputs

\* execute_workflow has returned the record of run r
Returned(r) == r \in Runs /\ execution[r].completed

\* C26: once execute_workflow has returned a record, completed or failed,
\* the record is stored under its id and get_execution returns it; an id
\* that was never returned is not found; each call stores exactly one
\* record, its own, and the step that stores it neither replaces nor alters
\* a record stored earlier.
C26_RecordsStoredById ==
    /\ [](\A id \in 1..(MaxRuns + 1) :
            IF Returned(id)
            THEN /\ execution[id].status \in {"completed", "failed"}
                 /\ GetExecution(id).found
                 /\ GetExecution(id).execution = Record(id)
            ELSE ~GetExecution(id).found)
    /\ [][executions' /= executions =>
            /\ cur /= 0
            /\ procs[cur].parent = 0
            /\ procs[cur].run \notin executions
            /\ executions' = executions \cup {procs[cur].run}
            /\ \A earlier \in executions : Record(earlier)' = Record(earlier)]_vars

\* a completed and a failed record are stored side by side
C26_Witness ==
    \E r, q \in executions :
        /\ execution[r].status = "completed" /\ execution[q].status = "failed"
        /\ GetExecution(r).found /\ GetExecution(q).found
        /\ ~GetExecution(Len(execution) + 1).found

\* position in the log at which the handler of task t completed in run r
\* (tasks entered once)
ResultAt(r, t) == CHOOSE j \in 1..Len(log) : log[j] = Event("result", r, t)

\* a and b are two successors of one Parallel node of run r with the same
\* output key, and the handlers of both have completed successfully
SiblingsCompletedUnderOneKey(r, a, b) ==
    /\ a /= b
    /\ \E P \in DOMAIN TasksOf(r) :
            TasksOf(r)[P].type = "parallel" /\ {a, b} \subseteq Range(Declared(r, P))
    /\ OutputKey(r, a) /= "" /\ OutputKey(r, a) = OutputKey(r, b)
    /\ \E j \in 1..Len(log) : log[j] = Event("result", r, a)
    /\ \E j \in 1..Len(log) : log[j] = Event("result", r, b)

\* C27: when two successor tasks of one Parallel node both complete
\* successfully and have the same output key, the run still ends completed
\* with no error, and the final agent_outputs value under that key is the
\* output of whichever of the two handlers completed last.
C27_SameKeyLastWriteWins ==
    \A r \in executions : \A a, b \in DOMAIN TasksOf(r) :
        (SiblingsCompletedUnderOneKey(r, a, b) /\ ResultAt(r, a) < ResultAt(r, b)) =>
            /\ execution[r].status = "completed"
            /\ execution[r].errors = <<>>
            /\ Record(r).context.agent_outputs[OutputKey(r, b)] =
                    VDict(execution[r].task_executions[b].output_data)

\* the branch started first completed last and its output, which differs
\* from its sibling's, is the final one
C27_Witness ==
    \E r \in executions : \E P \in DOMAIN TasksOf(r) :
        /\ TasksOf(r)[P].type = "parallel" /\ Len(Declared(r, P)) = 2
        /\ LET a == Declared(r, P)[1]
               b == Declared(r, P)[2]
           IN
           /\ SiblingsCompletedUnderOneKey(r, a, b)
           /\ ResultAt(r, b) < ResultAt(r, a)
           /\ execution[r].task_executions[a].output_data
                    /= execution[r].task_executions[b].output_data
           /\ Record(r).context.agent_outputs[OutputKey(r, a)] =
                    VDict(execution[r].task_executions[a].output_data)

\* the graph run r executes contains no Parallel task
NoParallel(r) == \A t \in DOMAIN TasksOf(r) : TasksOf(r)[t].type /= "parallel"

\* the coroutines of run r that await a handler they have invoked
InFlight(r) == {p \in 1..Len(procs) : procs[p].run = r /\ procs[p].st = "await_handler"}

\* the handler of a task of run r is invoked in this step
Invokes(r) ==
    \E j \in (Len(log) + 1)..Len(log') : log'[j].e = "invoke" /\ log'[j].run = r

\* C28: in an execution whose graph contains no Parallel task at most one
\* handler invocation is in flight at any time: a handler is never invoked
\* while another handler of the same execution has not yet returned.
C28_OneHandlerInFlight ==
    /\ [](\A r \in Runs : NoParallel(r) => Cardinality(InFlight(r)) <= 1)
    /\ [][\A r \in Runs : (NoParallel(r) /\ Invokes(r)) => InFlight(r) = {}]_vars

\* a run without a Parallel task awaits a handler it has invoked after an
\* earlier handler of the run, which suspended too, had returned
C28_Witness ==
    \E r \in Runs : \E j \in 1..Len(log) :
        /\ NoParallel(r)
        /\ InFlight(r) /= {}
        /\ log[j].e = "invoke" /\ log[j].run = r
        /\ Agents[TasksOf(r)[log[j].task].agent_id].suspends
        /\ \E k \in (j + 1)..Len(log) : log[k].e = "invoke" /\ log[k].run = r /\ k = Len(log)

\* the tasks whose handler raised in run r
Raised(r) == {t \in DOMAIN TasksOf(r) : \E j \in 1..Len(log) : log[j] = Event("raised", r, t)}

\* task x lies on a chain of successor lists from the entry task to task t
OnChainTo(r, x, t) ==
    /\ x \in {Definitions[DefOf(r)].entry_task_id} \cup Subtree(r, Definitions[DefOf(r)].entry_task_id)
    /\ (x = t \/ t \in Subtree(r, x))

\* C29: when a task fails, the error text is set on the history entry of
\* the task where the failure originated and on no entry of a task lying
\* outside the chain from the entry task to that task; a concurrently running
\* Parallel sibling that did not fail never gets an error on its entry.
C29_ErrorOnOriginChainOnly ==
    \A r \in Runs :
        /\ \A t \in Raised(r) :
              \E j \in 1..Len(History(r)) :
                  History(r)[j].task_id = t /\ History(r)[j].error = HandlerError
        /\ \A j \in 1..Len(History(r)) :
              History(r)[j].error = HandlerError =>
                  \E t \in Raised(r) : OnChainTo(r, History(r)[j].task_id, t)

\* the tasks the Parallel node of the financial reporting workflow fans out
FannedOut == {"analyze_trends", "check_compliance", "calculate_metrics"}

\* C30: in the financial reporting workflow the handler of the aggregating
\* task generate_report is invoked only after all three tasks fanned out by
\* the Parallel node have completed, so every output it maps as input is
\* already in the context and is passed to it, under every interleaving.
C30_AggregateAfterFanOut ==
    \A r \in Runs : \A p \in 1..Len(procs) :
        (/\ procs[p].run = r
         /\ Definitions[DefOf(r)].id = "wf_financial"
         /\ procs[p].st = "await_handler"
         /\ Top(p).task = "generate_report") =>
            /\ \A t \in FannedOut : \E j \in 1..Len(log) : log[j] = Event("result", r, t)
            /\ {"trends", "compliance", "metrics"} \subseteq DOMAIN procs[p].arg

\* run r executes a workflow built by create_approval_workflow
IsApproval(r) == Definitions[DefOf(r)].id \in {"wf_approval", "wf_approval_denied"}

\* the decision output of run r says approved
SaysApproved(r) ==
    /\ "decision" \in DOMAIN context[r].agent_outputs
    /\ "approved" \in DOMAIN context[r].agent_outputs["decision"].d
    /\ Truthy(context[r].agent_outputs["decision"].d["approved"])

\* C31: in every completed run of the approval workflow exactly one of the
\* tasks approve and reject is entered, exactly once: approve when the
\* decision output says approved, reject otherwise.
C31_ApprovalTakesOneBranch ==
    \A r \in executions :
        (IsApproval(r) /\ execution[r].status = "completed") =>
            /\ Count(r, "approve") + Count(r, "reject") = 1
            /\ Count(r, "approve") = 1 <=> SaysApproved(r)

\* the walk of run r has ended: execute_workflow has left its try block
WalkEnded(r) == \E j \in 1..Len(log) : log[j] = Event("terminal", r, "")

\* C32: an execution's status is running from its creation until the walk
\* ends, then becomes exactly one of completed or failed and never changes
\* again; it is never pending or cancelled in a returned record, and in
\* every returned record errors is non-empty if and only if status is failed.
C32_StatusLifecycle ==
    /\ [](\A r \in Runs :
            /\ execution[r].status = "running" <=> ~WalkEnded(r)
            /\ WalkEnded(r) <=> r \in executions
            /\ r \in executions =>
                /\ execution[r].status \in {"completed", "failed"}
                /\ execution[r].errors /= <<>> <=> execution[r].status = "failed")
    /\ [][\A r \in Runs :
            execution[r].status /= "running" =>
                /\ execution'[r].status = execution[r].status
                /\ execution'[r].errors = execution[r].errors]_vars

\* one returned run failed with an error, another is completed without one,
\* and steps of the failed run's Parallel branches were still to come
C32_Witness ==
    \E r, q \in executions :
        /\ execution[r].status = "failed" /\ execution[r].errors /= <<>>
        /\ execution[q].status = "completed" /\ execution[q].errors = <<>>
        /\ \E j \in 1..Len(log) :
              /\ log[j] = Event("terminal", r, "")
              /\ \E k \in (j + 1)..Len(log) : log[k].run = r

\* the successor relation of the definition is acyclic
Acyclic(def) ==
    \A t \in DOMAIN def.tasks : t \notin ReachFrom(def.tasks, Range(def.tasks[t].next_tasks))

\* execute_workflow has returned the record of run r, with a terminal status
ReturnedTerminal(r) ==
    r \in executions /\ execution[r].status \in {"completed", "failed"}

\* C33: for a registered graph whose successor relation is acyclic, a finite
\* max_loop_iterations and handlers that each eventually return, every
\* execute_workflow call that started a run eventually returns a record with
\* a terminal status (completed or failed).
C33_RunsTerminate ==
    <>[](\A r \in Runs : Acyclic(Definitions[DefOf(r)]) => ReturnedTerminal(r))

\* a run that fanned out in a Parallel node and awaited a handler there has
\* returned with a terminal status
C33_Witness ==
    \E r \in Runs :
        /\ ReturnedTerminal(r)
        /\ Acyclic(Definitions[DefOf(r)])
        /\ \E j \in 1..Len(History(r)) : History(r)[j].type = "parallel"
        /\ \E j \in 1..Len(log) :
              /\ log[j].e = "invoke" /\ log[j].run = r
              /\ Agents[TasksOf(r)[log[j].task].agent_id].suspends

\* task t of run r is a Sequential task whose agent_id is absent or names no
\* registered handler
NoHandler(r, t) ==
    /\ TasksOf(r)[t].type = "sequential"
    /\ TasksOf(r)[t].agent_id = "" \/ TasksOf(r)[t].agent_id \notin DOMAIN Agents

\* run r entered task t, at position j of the log
EnteredAt(r, t, j) == log[j] = Event("enter", r, t)

\* C34: entering a Sequential task whose handler reference is absent or names
\* no registered handler fails the run: no handler is invoked for it, no
\* output is written and no task_executions entry is recorded for it, none of
\* its successors is entered, and the execution ends failed with the error in
\* errors.
C34_MissingHandlerFailsRun ==
    \A r \in Runs : \A t \in {u \in DOMAIN TasksOf(r) : NoHandler(r, u)} :
        \A j \in {i \in 1..Len(log) : EnteredAt(r, t, i)} :
            /\ \A k \in 1..Len(log) : log[k] /= Event("invoke", r, t)
            /\ t \notin DOMAIN execution[r].task_executions
            /\ OutputKey(r, t) \notin DOMAIN context[r].agent_outputs
            /\ \A k \in (j + 1)..Len(log) :
                  ~(log[k].e = "enter" /\ log[k].run = r
                        /\ log[k].task \in Range(Declared(r, t)))
            /\ r \in executions =>
                /\ execution[r].status = "failed"
                /\ AgentNotFound(TasksOf(r)[t].agent_id) \in Range(execution[r].errors)

\* a run entered a task without a registered handler as a branch of a
\* Parallel node and has returned failed, with the sibling's handler invoked
C34_Witness ==
    \E r \in executions : \E t \in DOMAIN TasksOf(r) :
        /\ NoHandler(r, t)
        /\ TasksOf(r)[t].agent_id /= ""
        /\ Count(r, t) = 1
        /\ execution[r].status = "failed"
        /\ \E k \in 1..Len(log) : log[k].e = "invoke" /\ log[k].run = r

\* task t of run r is a Conditional or Loop task that has no condition
NoCondition(r, t) ==
    /\ TasksOf(r)[t].type \in {"conditional", "loop"}
    /\ TasksOf(r)[t].condition = <<>>

\* C35: a Conditional or Loop task that has no condition never executes any
\* of its successors: entering it fails the run (status failed, an error in
\* errors) instead of treating the missing condition as true or as false.
C35_MissingConditionFailsRun ==
    \A r \in Runs : \A t \in {u \in DOMAIN TasksOf(r) : NoCondition(r, u)} :
        \A j \in {i \in 1..Len(log) : EnteredAt(r, t, i)} :
            /\ \A k \in (j + 1)..Len(log) :
                  ~(log[k].e = "enter" /\ log[k].run = r
                        /\ log[k].task \in Range(Declared(r, t)))
            /\ r \in executions =>
                /\ execution[r].status = "failed"
                /\ execution[r].errors /= <<>>

\* the events of kind e the step adds to the log for task t of run r
Added(e, r, t) ==
    {j \in (Len(log) + 1)..Len(log') : log'[j] = Event(e, r, t)}

\* the coroutine that holds the event loop dispatches a Sequential task that
\* has a registered handler
DispatchesSequential ==
    /\ cur /= 0
    /\ Pc(cur) = "dispatch"
    /\ TaskOf(cur).type = "sequential"
    /\ TaskOf(cur).agent_id \in DOMAIN Agents
    /\ procs'[cur] /= procs[cur]

\* Each entry of a Sequential task invokes its handler exactly once: the
\* dispatch that follows the entry invokes it once, and no other step
\* invokes a handler, whatever max_retries and the outcome are.
InvokedOncePerEntry ==
    /\ DispatchesSequential =>
            Cardinality(Added("invoke", procs[cur].run, Top(cur).task)) = 1
    /\ \A r \in Runs : \A t \in DOMAIN TasksOf(r) :
            Added("invoke", r, t) /= {} =>
                /\ DispatchesSequential
                /\ procs[cur].run = r /\ Top(cur).task = t

\* Parallel, Conditional and Loop tasks have no handler invocation and no
\* task_executions entry
ControlTasksNeverInvoke ==
    \A r \in Runs :
        /\ \A j \in 1..Len(log) :
              (log[j].e = "invoke" /\ log[j].run = r) =>
                    TasksOf(r)[log[j].task].type = "sequential"
        /\ \A t \in DOMAIN execution[r].task_executions :
                TasksOf(r)[t].type = "sequential"

\* the step in which a handler returns records what it returned under the
\* task's id
RecordsReturned ==
    \A r \in Runs : \A t \in DOMAIN TasksOf(r) :
        /\ Added("result", r, t) /= {} =>
                /\ t \in DOMAIN execution'[r].task_executions
                /\ execution'[r].task_executions[t].status = "completed"
        /\ Added("failed", r, t) /= {} =>
                /\ t \in DOMAIN execution'[r].task_executions
                /\ execution'[r].task_executions[t].status = "failed"

\* C36: each entry of a Sequential task invokes its handler exactly once,
\* whatever max_retries is and whatever the handler's outcome, and records
\* that invocation's result under the task's id in task_executions, also
\* when the handler raised; Parallel, Conditional and Loop tasks never invoke
\* a handler and are never retried.
C36_InvokedOnceAndRecorded ==
    /\ []ControlTasksNeverInvoke
    /\ [][/\ InvokedOncePerEntry
          /\ RecordsReturned
          /\ \A r \in Runs : \A t \in DOMAIN TasksOf(r) :
                Added("raised", r, t) /= {} =>
                    t \in DOMAIN execution'[r].task_executions]_vars

\* C36, amended: each entry of a Sequential task that has a registered
\* handler invokes it exactly once, whatever max_retries and the outcome are;
\* when the handler returns, completed or failed, what it returned is
\* recorded under the task's id; when it raises, task_executions is left as
\* it was; Parallel, Conditional and Loop tasks never invoke a handler.
C36_InvokedOnceRecordedOnReturn ==
    /\ []ControlTasksNeverInvoke
    /\ [][/\ InvokedOncePerEntry
          /\ RecordsReturned
          /\ \A r \in Runs : \A t \in DOMAIN TasksOf(r) :
                Added("raised", r, t) /= {} =>
                    execution'[r].task_executions = execution[r].task_executions]_vars

\* in one run a task with max_retries 0 was invoked once and its handler
\* failed, in another run of the workflow id a task with the default
\* max_retries was invoked once and its handler raised
C36_Witness ==
    \E r, q \in Runs : \E t \in DOMAIN TasksOf(r) : \E u \in DOMAIN TasksOf(q) :
        /\ TasksOf(r)[t].max_retries = 0
        /\ \E j \in 1..Len(log) : log[j] = Event("failed", r, t)
        /\ Cardinality({j \in 1..Len(log) : log[j] = Event("invoke", r, t)}) = 1
        /\ execution[r].task_executions[t].status = "failed"
        /\ TasksOf(q)[u].max_retries = DefaultMaxRetries
        /\ \E j \in 1..Len(log) : log[j] = Event("raised", q, u)
        /\ Cardinality({j \in 1..Len(log) : log[j] = Event("invoke", q, u)}) = 1
        /\ u \notin DOMAIN execution[q].task_executions
====
